---- MODULE Spec2Model ----
(***************************************************************************)
(* Model of mortgage_calc.py: one run of the Streamlit script, from the    *)
(* sidebar values to the export section.                                   *)
(*                                                                         *)
(* Arithmetic.  The script computes in floating point; the model computes  *)
(* the same formulas exactly.  The monthly rate is the fraction            *)
(* monthly_rate.num / monthly_rate.den, and every amount of money is an    *)
(* integer count of 1/Unit dollars, where Unit(rate, n) is chosen so that  *)
(* every quotient the script takes is exact (ExactArithmetic states it).   *)
(* TLC's integers are 32 bits wide, so the term is a few payment periods   *)
(* and the periodic rate a simple fraction, instead of 180..600 months and *)
(* 2..12 percent a year.                                                   *)
(***************************************************************************)
EXTENDS Integers, Sequences, FiniteSets

\* ---- bounds of the model ----
MaxLoanUnits == 1      \* loan_amount is 0, 2, ..., 2 * MaxLoanUnits dollars
MaxRateDen == 2        \* monthly_rate is 1/1, ..., 1/MaxRateDen
MaxPayments == 4       \* num_payments is 2 .. MaxPayments
MaxAnnualUnits == 1    \* annual_property_tax is 0, 12, ..., 12 * MaxAnnualUnits
MaxExtra == 2          \* extra_monthly and extra_one_time are 0 .. MaxExtra dollars

\* ---- program constants ----
MonthsPerYear == 12    \* annual amount / 12
SafetyFactor == 2      \* while ... month < num_payments * 2

VARIABLES
    pc,                     \* position in the script
    loan_amount, down_payment_pct, monthly_rate, num_payments,
    annual_property_tax, annual_home_insurance,
    extra_monthly, extra_one_time, extra_one_time_month,
    entered_one_time,       \* what the one-time widget returned (extra_one_time is overwritten)
    show_table,             \* the "Show full amortization table" checkbox
    principal, monthly_tax, monthly_insurance, monthly_pi, monthly_payment,
    total_paid_standard, total_interest_standard, total_tax_paid, total_insurance_paid,
    balance, month, schedule, standard_schedule,
    has_df, df_amort,       \* has_df = FALSE is df_amort = None
    actual_payments, total_paid_extra, total_interest_extra, years_saved_months,
    success_shown, summary_savings, error

inputs == <<loan_amount, down_payment_pct, monthly_rate, num_payments,
            annual_property_tax, annual_home_insurance, extra_monthly,
            extra_one_time_month, entered_one_time, show_table>>
derived == <<principal, monthly_tax, monthly_insurance, monthly_pi, monthly_payment,
             total_paid_standard, total_interest_standard, total_tax_paid,
             total_insurance_paid>>
results == <<actual_payments, total_paid_extra, total_interest_extra, years_saved_months>>
outputs == <<success_shown, summary_savings, error>>
vars == <<pc, inputs, extra_one_time, derived, balance, month, schedule,
          standard_schedule, has_df, df_amort, results, outputs>>

\* ---- arithmetic helpers ----
RECURSIVE Pow(_, _)
Pow(x, k) == IF k = 0 THEN 1 ELSE x * Pow(x, k - 1)

Max(x, y) == IF x >= y THEN x ELSE y

\* (1 + monthly_rate) ** num_payments as the fraction Growth / Base
Growth(rate, n) == Pow(rate.den + rate.num, n)
Base(rate, n) == Pow(rate.den, n)

\* The number of money units in a dollar for a loan of n payments at this rate.
Unit(rate, n) == Base(rate, n) * (Growth(rate, n) - Base(rate, n))

RECURSIVE SumField(_, _)
SumField(s, f) == IF s = <<>> THEN 0 ELSE s[1][f] + SumField(Tail(s), f)

\* ---- the calculation, operator by operator ----
\* down_payment = loan_amount * (down_payment_pct / 100)
DownPayment(amount, pct) == (amount * pct) \div 100

\* monthly_tax = annual_property_tax / 12
Monthly(annual) == annual \div MonthsPerYear

MonthlyPI_NoGrowth(p, rate, n) == p \div n

\* if monthly_rate > 0: principal * (r * (1+r)**n) / ((1+r)**n - 1) else principal / n
MonthlyPI(p, rate, n) ==
    IF rate.num > 0
    THEN (p * rate.num * Growth(rate, n)) \div (rate.den * (Growth(rate, n) - Base(rate, n)))
    ELSE p \div n

MonthlyPayment_NoInsurance(pi, tax, insurance) == pi + tax

\* monthly_payment = monthly_pi + monthly_tax + monthly_insurance
MonthlyPayment(pi, tax, insurance) == pi + tax + insurance

\* interest = balance * monthly_rate
InterestOf(b, rate) == (b * rate.num) \div rate.den

ApplyOneTime_MonthAfter(one_time, m, one_time_month) == one_time > 0 /\ m = one_time_month + 1

\* if extra_one_time > 0 and month == extra_one_time_month
ApplyOneTime(one_time, m, one_time_month) == one_time > 0 /\ m = one_time_month

PrincipalPayment_SignSlip(pi, interest, extra) == interest - pi + extra

PrincipalPayment_IgnoresExtra(pi, interest, extra) == pi - interest

\* principal_payment = monthly_pi - interest + extra_this_month
PrincipalPayment(pi, interest, extra) == pi - interest + extra

NewBalance_Unclamped(b, principal_payment) == b - principal_payment

\* balance = max(0, balance - principal_payment)
NewBalance(b, principal_payment) == Max(0, b - principal_payment)

NextMonth_Skip(m) == m + 2

\* month += 1
NextMonth(m) == m + 1

\* while balance > 0 and month < num_payments * 2
LoopContinues(b, m, n) == b > 0 /\ m < n * SafetyFactor

\* if balance <= 0: break
PaidOff(b) == b <= 0

\* if extra_monthly > 0 or extra_one_time > 0
ExtrasGiven(monthly, one_time) == monthly > 0 \/ one_time > 0

\* ---- the state after the sidebar ----
Init ==
    \E la \in 0..MaxLoanUnits, pct \in {0, 50}, d \in 1..MaxRateDen, n \in 2..MaxPayments,
       tax \in 0..MaxAnnualUnits, ins \in 0..1, em \in 0..MaxExtra, eo \in 0..MaxExtra,
       st \in BOOLEAN :
      \E m \in (IF eo = 0 THEN {n} ELSE 1..n) :
        LET rate == [num |-> 1, den |-> d]
            u == Unit(rate, n)
        IN /\ pc = "calc"
           /\ loan_amount = 2 * la * u
           /\ down_payment_pct = pct
           /\ monthly_rate = rate
           /\ num_payments = n
           /\ annual_property_tax = MonthsPerYear * tax * u
           /\ annual_home_insurance = MonthsPerYear * ins * u
           /\ extra_monthly = em * u
           /\ extra_one_time = eo * u
           /\ entered_one_time = eo * u
           /\ extra_one_time_month = m
           /\ show_table = st
           /\ principal = 0 /\ monthly_tax = 0 /\ monthly_insurance = 0
           /\ monthly_pi = 0 /\ monthly_payment = 0
           /\ total_paid_standard = 0 /\ total_interest_standard = 0
           /\ total_tax_paid = 0 /\ total_insurance_paid = 0
           /\ balance = 0 /\ month = 0
           /\ schedule = <<>> /\ standard_schedule = <<>>
           /\ has_df = FALSE /\ df_amort = <<>>
           /\ actual_payments = 0 /\ total_paid_extra = 0
           /\ total_interest_extra = 0 /\ years_saved_months = 0
           /\ success_shown = FALSE /\ summary_savings = "unset" /\ error = "None"

\* ---- lines 19-20, 34-35, 46-61 ----
Calculations ==
    /\ pc = "calc"
    /\ LET p == loan_amount - DownPayment(loan_amount, down_payment_pct)
           tax == Monthly(annual_property_tax)
           ins == Monthly(annual_home_insurance)
           pi == MonthlyPI(p, monthly_rate, num_payments)
           pay == MonthlyPayment(pi, tax, ins)
       IN /\ principal' = p
          /\ monthly_tax' = tax
          /\ monthly_insurance' = ins
          /\ monthly_pi' = pi
          /\ monthly_payment' = pay
          /\ total_paid_standard' = pay * num_payments
          /\ total_interest_standard' = (pi * num_payments) - p
          /\ total_tax_paid' = tax * num_payments
          /\ total_insurance_paid' = ins * num_payments
    /\ pc' = "branch"
    /\ UNCHANGED <<inputs, extra_one_time, balance, month, schedule, standard_schedule,
                   has_df, df_amort, results, outputs>>

\* ---- lines 64-68 ----
StartExtras ==
    /\ pc = "branch"
    /\ ExtrasGiven(extra_monthly, extra_one_time)
    /\ balance' = principal
    /\ schedule' = <<>>
    /\ total_interest_extra' = 0
    /\ month' = 0
    /\ pc' = "loop"
    /\ UNCHANGED <<inputs, extra_one_time, derived, standard_schedule, has_df, df_amort,
                   actual_payments, total_paid_extra, years_saved_months, outputs>>

\* ---- lines 105-109 ----
NoExtras ==
    /\ pc = "branch"
    /\ ~ExtrasGiven(extra_monthly, extra_one_time)
    /\ has_df' = FALSE
    /\ years_saved_months' = 0
    /\ total_paid_extra' = total_paid_standard
    /\ total_interest_extra' = total_interest_standard
    /\ pc' = "dashboard"
    /\ UNCHANGED <<inputs, extra_one_time, derived, balance, month, schedule,
                   standard_schedule, df_amort, actual_payments, outputs>>

\* ---- lines 70-98: one iteration of the while loop ----
LoopStep ==
    /\ pc = "loop"
    /\ LoopContinues(balance, month, num_payments)
    /\ LET m == NextMonth(month)
           interest == InterestOf(balance, monthly_rate)
           apply == ApplyOneTime(extra_one_time, m, extra_one_time_month)
           extra_this_month == extra_monthly + (IF apply THEN extra_one_time ELSE 0)
           principal_payment == PrincipalPayment(monthly_pi, interest, extra_this_month)
           b == NewBalance(balance, principal_payment)
       IN /\ month' = m
          /\ total_interest_extra' = total_interest_extra + interest
          /\ extra_one_time' = IF apply THEN 0 ELSE extra_one_time
          /\ balance' = b
          /\ schedule' = Append(schedule,
                [Month |-> m,
                 TotalPayment |-> monthly_pi + monthly_tax + monthly_insurance + extra_this_month,
                 Principal |-> principal_payment,
                 Interest |-> interest,
                 Tax |-> monthly_tax,
                 Insurance |-> monthly_insurance,
                 Extra |-> extra_this_month,
                 Balance |-> b])
          /\ pc' = IF PaidOff(b) THEN "totals" ELSE "loop"
    /\ UNCHANGED <<inputs, derived, standard_schedule, has_df, df_amort,
                   actual_payments, total_paid_extra, years_saved_months, outputs>>

\* ---- line 70: the while condition is false ----
LoopExit ==
    /\ pc = "loop"
    /\ ~LoopContinues(balance, month, num_payments)
    /\ pc' = "totals"
    /\ UNCHANGED <<inputs, extra_one_time, derived, balance, month, schedule,
                   standard_schedule, has_df, df_amort, results, outputs>>

\* ---- lines 100-104, the schedule has rows ----
Totals ==
    /\ pc = "totals"
    /\ schedule # <<>>
    /\ df_amort' = schedule
    /\ has_df' = TRUE
    /\ actual_payments' = Len(schedule)
    /\ total_paid_extra' = SumField(schedule, "TotalPayment")
    /\ total_interest_extra' = SumField(schedule, "Interest")
    /\ years_saved_months' = num_payments - Len(schedule)
    /\ pc' = "dashboard"
    /\ UNCHANGED <<inputs, extra_one_time, derived, balance, month, schedule,
                   standard_schedule, outputs>>

\* ---- lines 100-102, the schedule is empty: pd.DataFrame([]) has no columns,
\*      df_amort["Total Payment"] raises KeyError and the script stops ----
TotalsKeyError ==
    /\ pc = "totals"
    /\ schedule = <<>>
    /\ df_amort' = <<>>
    /\ has_df' = TRUE
    /\ actual_payments' = 0
    /\ error' = "KeyError"
    /\ pc' = "error"
    /\ UNCHANGED <<inputs, extra_one_time, derived, balance, month, schedule,
                   standard_schedule, total_paid_extra, total_interest_extra,
                   years_saved_months, success_shown, summary_savings>>

\* ---- lines 112-120 ----
Dashboard ==
    /\ pc = "dashboard"
    /\ success_shown' = ExtrasGiven(extra_monthly, extra_one_time)
    /\ pc' = "table"
    /\ UNCHANGED <<inputs, extra_one_time, derived, balance, month, schedule,
                   standard_schedule, has_df, df_amort, results, summary_savings, error>>

\* ---- lines 156-158: the box is ticked and df_amort is None ----
StartStandard ==
    /\ pc = "table"
    /\ show_table /\ ~has_df
    /\ balance' = principal
    /\ standard_schedule' = <<>>
    /\ month' = 0
    /\ pc' = "standard"
    /\ UNCHANGED <<inputs, extra_one_time, derived, schedule, has_df, df_amort,
                   results, outputs>>

\* ---- lines 160-173: one iteration of for month in range(1, num_payments + 1);
\*      month = 0 stands for the iterator before its first value ----
StandardStep ==
    /\ pc = "standard"
    /\ month < num_payments
    /\ LET m == NextMonth(month)
           interest == InterestOf(balance, monthly_rate)
           principal_payment == PrincipalPayment(monthly_pi, interest, 0)
           b == NewBalance(balance, principal_payment)
       IN /\ month' = m
          /\ balance' = b
          /\ standard_schedule' = Append(standard_schedule,
                [Month |-> m,
                 TotalPayment |-> monthly_payment,
                 Principal |-> principal_payment,
                 Interest |-> interest,
                 Tax |-> monthly_tax,
                 Insurance |-> monthly_insurance,
                 Extra |-> 0,
                 Balance |-> b])
    /\ pc' = "standard"
    /\ UNCHANGED <<inputs, extra_one_time, derived, schedule, has_df, df_amort,
                   results, outputs>>

\* ---- line 174 ----
StandardDone ==
    /\ pc = "standard"
    /\ month >= num_payments
    /\ df_amort' = standard_schedule
    /\ has_df' = TRUE
    /\ pc' = "export"
    /\ UNCHANGED <<inputs, extra_one_time, derived, balance, month, schedule,
                   standard_schedule, results, outputs>>

\* ---- lines 156-157: the box is not ticked, or df_amort is already there ----
SkipStandard ==
    /\ pc = "table"
    /\ ~show_table \/ has_df
    /\ pc' = "export"
    /\ UNCHANGED <<inputs, extra_one_time, derived, balance, month, schedule,
                   standard_schedule, has_df, df_amort, results, outputs>>

\* ---- lines 186-217 ----
Export ==
    /\ pc = "export"
    /\ summary_savings' =
          IF has_df
          THEN (IF ExtrasGiven(extra_monthly, extra_one_time) THEN "Saves" ELSE "N/A")
          ELSE "not exported"
    /\ pc' = "done"
    /\ UNCHANGED <<inputs, extra_one_time, derived, balance, month, schedule,
                   standard_schedule, has_df, df_amort, results, success_shown, error>>

Next ==
    \/ Calculations
    \/ StartExtras
    \/ NoExtras
    \/ LoopStep
    \/ LoopExit
    \/ Totals
    \/ TotalsKeyError
    \/ Dashboard
    \/ StartStandard
    \/ StandardStep
    \/ StandardDone
    \/ SkipStandard
    \/ Export

Spec == Init /\ [][Next]_vars

\* ---- vocabulary of the properties ----
\* The script has passed the extras branch and computed its totals.
AfterTotals == pc \in {"dashboard", "table", "export", "done"}

\* The widgets returned a positive extra payment, so lines 65-104 ran.
ExtrasEntered == ExtrasGiven(extra_monthly, entered_one_time)

\* balance[i-1] of a schedule, with balance[0] = principal
PrevBalance(s, i) == IF i = 1 THEN principal ELSE s[i - 1].Balance

\* The records of s that carry the monthly extra plus the one-time extra.
OneTimeRecords(s) == {i \in 1..Len(s) : s[i].Extra = extra_monthly + entered_one_time}

\* Every quotient of the calculation is exact in the chosen money unit.
ExactArithmetic ==
    /\ (loan_amount * down_payment_pct) % 100 = 0
    /\ annual_property_tax % MonthsPerYear = 0
    /\ annual_home_insurance % MonthsPerYear = 0
    /\ pc # "calc" =>
          monthly_pi * (monthly_rate.den
                        * (Growth(monthly_rate, num_payments) - Base(monthly_rate, num_payments)))
             = principal * monthly_rate.num * Growth(monthly_rate, num_payments)
    /\ \A i \in 1..Len(schedule) :
          schedule[i].Interest * monthly_rate.den = PrevBalance(schedule, i) * monthly_rate.num
    /\ \A i \in 1..Len(standard_schedule) :
          standard_schedule[i].Interest * monthly_rate.den
             = PrevBalance(standard_schedule, i) * monthly_rate.num

\* The while loop is never left by its safety limit with a balance still owed.
SafetyLimitNotReached == ~(pc = "totals" /\ balance > 0)

\* ---- C1 ----
\* C1: with a positive principal and a positive extra payment, the number of
\* payments of the extras schedule is at most num_payments (the length of the
\* zero-extra schedule), so years_saved, (num_payments - actual_payments) / 12,
\* is not negative.
C1_AcceleratedPayoff ==
    (AfterTotals /\ ExtrasEntered /\ principal > 0) =>
        /\ actual_payments <= num_payments
        /\ years_saved_months >= 0
        /\ actual_payments = Len(schedule)

C1_Witness ==
    /\ pc = "done" /\ ExtrasEntered /\ principal > 0
    /\ actual_payments >= 2 /\ actual_payments < num_payments

\* ---- C2 ----
\* C2: in the extras schedule and in the standard schedule, each record's
\* balance is at most the balance before it, starting from the principal.
C2_MonotonicBalance ==
    /\ \A i \in 1..Len(schedule) : schedule[i].Balance <= PrevBalance(schedule, i)
    /\ \A i \in 1..Len(standard_schedule) :
          standard_schedule[i].Balance <= PrevBalance(standard_schedule, i)

C2_Witness ==
    /\ Len(schedule) >= 3
    /\ schedule[2].Balance < schedule[1].Balance
    /\ schedule[2].Balance > 0

\* ---- C3 ----
\* C3 as stated: every record's balance is max(0, previous balance - Principal
\* field - Extra field).
C3_RecurrenceSubtractsExtraAgain ==
    /\ \A i \in 1..Len(schedule) :
          schedule[i].Balance
             = Max(0, PrevBalance(schedule, i) - schedule[i].Principal - schedule[i].Extra)
    /\ \A i \in 1..Len(standard_schedule) :
          standard_schedule[i].Balance
             = Max(0, PrevBalance(standard_schedule, i) - standard_schedule[i].Principal
                         - standard_schedule[i].Extra)

\* C3 amended: the Principal field already contains the Extra field
\* (Principal = monthly_pi - Interest + Extra), and every record's balance is
\* max(0, previous balance - Principal field).
C3_BalanceRecurrence ==
    /\ \A i \in 1..Len(schedule) :
          /\ schedule[i].Balance = Max(0, PrevBalance(schedule, i) - schedule[i].Principal)
          /\ schedule[i].Principal = monthly_pi - schedule[i].Interest + schedule[i].Extra
    /\ \A i \in 1..Len(standard_schedule) :
          /\ standard_schedule[i].Balance
                = Max(0, PrevBalance(standard_schedule, i) - standard_schedule[i].Principal)
          /\ standard_schedule[i].Principal = monthly_pi - standard_schedule[i].Interest

C3_Witness ==
    /\ Len(schedule) >= 2
    /\ schedule[1].Extra > 0 /\ schedule[1].Balance > 0
    /\ schedule[Len(schedule)].Balance = 0
    /\ schedule[Len(schedule)].Principal > PrevBalance(schedule, Len(schedule))

\* ---- C4 ----
\* C4 as stated: with a one-time extra entered for month m, exactly one record
\* carries extra_monthly + the one-time extra, and every record of another
\* month carries extra_monthly.
C4_ExactlyOneRecord ==
    (AfterTotals /\ entered_one_time > 0) =>
        /\ Cardinality(OneTimeRecords(schedule)) = 1
        /\ \A i \in 1..Len(schedule) :
              schedule[i].Month # extra_one_time_month => schedule[i].Extra = extra_monthly

\* C4 amended: the record of month m carries extra_monthly + the one-time extra
\* when the schedule reaches month m, and no record carries it when the loan is
\* paid off before month m; every record of another month carries extra_monthly.
C4_OneShotExtra ==
    (AfterTotals /\ entered_one_time > 0) =>
        /\ OneTimeRecords(schedule)
              = (IF Len(schedule) >= extra_one_time_month THEN {extra_one_time_month} ELSE {})
        /\ \A i \in 1..Len(schedule) :
              schedule[i].Month # extra_one_time_month => schedule[i].Extra = extra_monthly

C4_Witness ==
    /\ AfterTotals /\ entered_one_time > 0 /\ extra_monthly > 0
    /\ extra_one_time_month >= 2
    /\ Len(schedule) >= extra_one_time_month
    /\ schedule[extra_one_time_month].Extra = extra_monthly + entered_one_time

\* ---- C5 ----
\* C5 as stated: total paid is the P&I payment times num_payments and total
\* interest is total paid minus the principal, also with tax or insurance.
C5_TotalsFromBasePayment ==
    pc # "calc" =>
        /\ total_paid_standard = monthly_pi * num_payments
        /\ total_interest_standard = total_paid_standard - principal

\* C5 amended: total paid is (P&I payment + monthly tax + monthly insurance)
\* times num_payments, and total interest is the P&I payment times num_payments
\* minus the principal, that is total paid minus the tax and insurance paid
\* minus the principal.
C5_StandardTotals ==
    pc # "calc" =>
        /\ total_paid_standard
              = (monthly_pi + monthly_tax + monthly_insurance) * num_payments
        /\ total_interest_standard = (monthly_pi * num_payments) - principal
        /\ total_interest_standard
              = total_paid_standard - total_tax_paid - total_insurance_paid - principal

C5_Witness ==
    /\ pc = "done" /\ principal > 0
    /\ monthly_tax > 0 /\ monthly_insurance > 0
    /\ total_paid_standard > monthly_pi * num_payments

\* ---- C7 ----
\* C7: whenever a positive extra payment was entered, the finished run shows
\* the extras message on the dashboard and the savings text in the export
\* summary, not "N/A".
C7_ExtrasSummaryReported ==
    (pc = "done" /\ ExtrasEntered) =>
        /\ success_shown
        /\ summary_savings = "Saves"

\* ---- C8 ----
\* C8: with a positive principal, a positive rate, at least two payments and a
\* positive monthly extra, the interest summed over the records of the extras
\* schedule is strictly less than the standard total interest.
C8_ExtrasReduceInterest ==
    (AfterTotals /\ principal > 0 /\ monthly_rate.num > 0 /\ num_payments >= 2
       /\ extra_monthly > 0) =>
        /\ SumField(schedule, "Interest") < (monthly_pi * num_payments) - principal
        /\ total_interest_standard - total_interest_extra > 0

C8_Witness ==
    /\ pc = "done" /\ principal > 0 /\ extra_monthly > 0
    /\ Len(schedule) >= 2
    /\ total_interest_extra > 0
    /\ total_interest_extra < total_interest_standard

\* ---- C9 ----
\* C9: the extras loop runs at most 2 * num_payments times; its records carry
\* the months 1, 2, ..., n; every record but the last has a positive balance;
\* and once the loop is left the last record has balance 0 unless
\* n = 2 * num_payments.
C9_StopAtPayoff ==
    /\ month <= num_payments * SafetyFactor
    /\ Len(schedule) <= num_payments * SafetyFactor
    /\ \A i \in 1..Len(schedule) : schedule[i].Month = i
    /\ \A i \in 1..(Len(schedule) - 1) : schedule[i].Balance > 0
    /\ (pc \in {"totals", "dashboard", "table", "export", "done"} /\ schedule # <<>>) =>
          \/ schedule[Len(schedule)].Balance = 0
          \/ Len(schedule) = num_payments * SafetyFactor

C9_Witness ==
    /\ pc = "totals"
    /\ Len(schedule) >= 3
    /\ schedule[Len(schedule)].Balance = 0
    /\ schedule[Len(schedule) - 1].Balance > 0

\* ---- C10 ----
\* C10: with principal 0 and a positive extra payment the run completes
\* without an error, with actual_payments = 0, total paid 0, total interest 0
\* and years_saved = num_payments / 12.
C10_ZeroPrincipalCompletes ==
    (pc \in {"dashboard", "table", "export", "done", "error"} /\ ExtrasEntered
       /\ principal = 0) =>
        /\ error = "None"
        /\ actual_payments = 0
        /\ total_paid_extra = 0
        /\ total_interest_extra = 0
        /\ years_saved_months = num_payments

====
